---- MODULE Spec2Model ----
(***************************************************************************)
(* Trombinoscope: one button, one NeoPixel strip.  A model of              *)
(* src/src/trombinoscope/trombinoscope.ino: the debounced button           *)
(* classifier (pollButton), the mode controller (loop / enterState), the   *)
(* unique random selector (pickUniqueRandom) and the three renderers.      *)
(*                                                                         *)
(* One Loop step is one call of loop(): it reads millis(), polls the       *)
(* button (two digitalRead calls) and runs the handler of the current      *)
(* mode.  The rejection-sampling loop of pickUniqueRandom is unbounded, so *)
(* it is unrolled: the Loop step that ends the animation opens the         *)
(* selection (pc = "pick"), every PickDraw step is one iteration of the    *)
(* while loop with one value of random(0, PEOPLE_NB), and the iteration    *)
(* that completes the selection enters SHOW and ends that call of loop().  *)
(*                                                                         *)
(* The specifications differ in the calls of loop() they explore (how far  *)
(* apart, how many, how the button moves) and in where they start: after   *)
(* setup() (Init), before it with any table (InitBoot), or at the end of   *)
(* an animation with any requested count (InitSelect).                     *)
(***************************************************************************)
EXTENDS Integers, Sequences, FiniteSets, TLC

\* ------------------------------------------------------------------------
\* Bounds of the model (not program constants)
\* ------------------------------------------------------------------------
\* Number of entries of the UsedLEDs table (the source ships 11; the table is
\* configuration and the code derives PEOPLE_NB from its length).
NumPeople == 4
\* Number of calls of loop() explored
MaxTicks == 10
\* Largest value of millis() explored
MaxTime == 5600

\* Elapsed time between two consecutive calls of loop(), in ms: a short one (longer
\* than the debounce and the idle step, shorter than the animation step) and a long
\* one (as long as the animation, longer than the count window and the long press).
Deltas == {40, 1800}

\* The same three bounds for SpecBtn: delays shorter than the debounce (20), just
\* longer (40), the long press threshold (800) and the long delay.
BtnTicks == 5
BtnTime == 3800
BtnDeltas == {20, 40, 800, 1800}


\* The selection count is a function of requestedCount alone; SpecSelect applies it
\* to every value from 1 to MaxRequest, in at most SelTicks calls of loop().
MaxRequest == 6
SelTicks == 3

\* Number of calls of loop() explored after setup() by SpecBoot
BootTicks == 4

\* SpecLive: LiveTicks calls of loop() with the button free, then calls that read
\* the button where it was, LiveDeltas ms apart, up to the clock value LiveTime.
LiveTicks == 4
LiveTime == 22000
LiveDeltas == {700}

\* SpecHue: HueTicks calls of loop() with the button free, then calls that read the
\* button where it was, one idle step apart, up to the clock value HueTime: more
\* than 256 idle frames.
HueTicks == 2
HueTime == 5200
HueDeltas == {20}

\* SpecHold: the calls of loop() explored reach the end of the hold: a third delay,
\* as long as the hold, HoldTicks calls, clock values up to HoldTime.
HoldTicks == 6
HoldTime == 13800
HoldDeltas == {40, 1800, 10000}

\* SpecWin: a delay of half the count window, shorter than the long press, so that a
\* press can begin before a timer expires and be released as a short press after.
WinTicks == 7
WinTime == 3700
WinDeltas == {40, 450, 1800}

\* SpecRounds: taps and waits.  The button changes only in calls of loop() RoundTaps
\* ms after the previous one, among the first RoundTicks calls; the other calls
\* come RoundWaits ms after the previous one and read the button unchanged; clock
\* values up to RoundTime, enough for a round ended by the hold and a second one.
RoundTicks == 12
RoundTime == 17500
RoundTaps == {40}
RoundWaits == {1800, 10000}
\* Values of random(0, 255) explored by the animation frame: rnd[i] holds the three
\* consecutive values drawn for person i.
RandomFrames ==
  { [i \in 0..(NumPeople - 1) |-> <<0, 0, 0>>],
    [i \in 0..(NumPeople - 1) |-> <<254, i, 127>>] }

\* ------------------------------------------------------------------------
\* Program constants
\* ------------------------------------------------------------------------
NUM_LEDS == 30
DEBOUNCE_MS == 35
LONG_PRESS_MS == 800
COUNT_WINDOW_MS == 900
IDLE_STEP_MS == 20
ANIM_STEP_MS == 55
ANIM_MS == 1800
HOLD_MS == 10000
RAINBOW_SPACING == 20
MAX_SEL == 32

PEOPLE_NB == NumPeople
UsedLEDs == [i \in 0..(PEOPLE_NB - 1) |-> 2 * i]
MAX_REQUEST == PEOPLE_NB

HIGH == TRUE
LOW == FALSE

IDLE == "IDLE"
COUNTING == "COUNTING"
ANIMATING == "ANIMATING"
SHOW == "SHOW"

\* ------------------------------------------------------------------------
\* Fixed-width arithmetic
\* ------------------------------------------------------------------------
\* The clock values explored stay below 2^31 (a bounded number of calls of loop(),
\* each a bounded time after the previous one), so a uint32_t difference
\* a - b is either the exact a - b (a >= b) or, when it wraps (a < b), a value of
\* at least 2^31, which is above every threshold of the program and negative as an
\* int32_t.  Wrapped stands for every such value.
Wrapped == 2147483647
\* a - b on uint32_t
Sub32(a, b) == IF a >= b THEN a - b ELSE Wrapped
\* a + b on uint32_t (no wrap below 2^31)
Add32(a, b) == a + b
\* (int32_t)x >= 0 for a uint32_t x
NonNegI32(x) == x < Wrapped
\* conversion to uint8_t
U8(x) == x % 256

\* ------------------------------------------------------------------------
\* Colours
\* ------------------------------------------------------------------------
\* Adafruit_NeoPixel::Color(r, g, b): packed 0x00RRGGBB, arguments are uint8_t
Color(r, g, b) == U8(r) * 65536 + U8(g) * 256 + U8(b)

White == Color(255, 255, 255)

colorWheel(p) ==
  LET pos == 255 - p
  IN  IF pos < 85 THEN Color(255 - pos * 3, 0, pos * 3)
      ELSE IF pos < 170 THEN Color(0, (pos - 85) * 3, 255 - (pos - 85) * 3)
      ELSE Color((pos - 170) * 3, 255 - (pos - 170) * 3, 0)

Pixels == 0..(NUM_LEDS - 1)
People == 0..(PEOPLE_NB - 1)
\* the person whose LED is pixel p, PEOPLE_NB if none
PersonAt ==
  [p \in Pixels |->
     IF \E i \in People : UsedLEDs[i] = p
     THEN CHOOSE i \in People : UsedLEDs[i] = p
     ELSE PEOPLE_NB]
\* strip.clear()
ClearedStrip == [p \in Pixels |-> 0]

VARIABLES
  state,            \* State state
  nowMs, lastIdleStep, lastAnimStep, stateEnterMs, lastButtonEdge,
  lastButtonLevel, longPressArmed, buttonPressMs,
  rainbowOffset,
  requestedCount, countWindowEnds,
  selectedIdx, selectedCount,
  pixels,           \* the strip's pixel buffer (setPixelColor / clear)
  shown,            \* the frame last sent by strip.show()
  pc,               \* "loop": between two calls of loop(); "pick": inside
                    \*   pickUniqueRandom; "setup": before setup(); "halt": in the
                    \*   while (true) of setup()
  count,            \* pickUniqueRandom's local count
  btn,              \* history: the value pollButton returned in the last call of loop()
  modeAtTick,       \* history: the mode in which the last call of loop() started
  enteredAt,        \* history: stateEnterMs when the last call of loop() started
  ticks,            \* history: the number of calls of loop() so far
  rawLevel,         \* history: the first digitalRead of the last call of loop()
  rawLevel2,        \* history: its second digitalRead
  rawUpMs,          \* history: nowMs of the last call whose first read was HIGH
  relDur,           \* history: when the last call read HIGH after LOW, the time since
                    \*   the last call that had read HIGH before (the press lasted
                    \*   less than that); -1 otherwise
  cycleEvts,        \* history: events returned since the button was last read going down
  evtGap,           \* history: time between the last two events returned
  lastEvtMs,        \* history: nowMs of the last event returned, -1 if none
  roundPresses,     \* history: short presses returned in IDLE (the first) and in
                    \*   COUNTING since the last IDLE -> COUNTING transition
  staleCount,       \* history: requestedCount as the last IDLE -> COUNTING
                    \*   transition found it
  ledTable          \* the UsedLEDs table as setup() checks it: UsedLEDs itself in
                    \*   every run but those that start before setup() with a table
                    \*   that may be out of range

vars == <<state, nowMs, lastIdleStep, lastAnimStep, stateEnterMs, lastButtonEdge,
          lastButtonLevel, longPressArmed, buttonPressMs, rainbowOffset,
          requestedCount, countWindowEnds, selectedIdx, selectedCount,
          pixels, shown, pc, count, btn, modeAtTick, enteredAt, ticks,
          rawLevel, rawLevel2, rawUpMs, relDur, cycleEvts, evtGap, lastEvtMs,
          roundPresses, staleCount, ledTable>>

\* ------------------------------------------------------------------------
\* Selection helpers
\* ------------------------------------------------------------------------
\* contains looking at the first entry only
containsFirst(arr, len, val) == len > 0 /\ arr[0] = val

\* contains with the loop stopping one entry early
containsShort(arr, len, val) == \E i \in 0..(len - 2) : arr[i] = val

\* contains(arr, len, val)
contains(arr, len, val) == \E i \in 0..(len - 1) : arr[i] = val

\* ------------------------------------------------------------------------
\* Button handling
\* ------------------------------------------------------------------------
\* no debounce gate
DebounceOkAlways(t) == TRUE

\* t - lastButtonEdge > DEBOUNCE_MS
DebounceOk(t) == Sub32(t, lastButtonEdge) > DEBOUNCE_MS

\* the classification with its branches swapped
ClassifyReleaseSwapped(pressDur) == IF pressDur >= LONG_PRESS_MS THEN 1 ELSE 2

\* classification of an accepted release after pressDur ms: 2 long, 1 short
ClassifyRelease(pressDur) == IF pressDur >= LONG_PRESS_MS THEN 2 ELSE 1

\* the condition of the held-down long press, on the state left by the edge branch
HeldLong(t, armed, pressMs, level2) ==
  armed /\ Sub32(t, pressMs) >= LONG_PRESS_MS /\ level2 = LOW

\* pollButton without longPressArmed = false in the held-down branch
pollButtonNoDisarm(t, level, level2) ==
  LET edge     == level # lastButtonLevel /\ DebounceOk(t)
      pressed  == edge /\ level = LOW
      released == edge /\ level # LOW
      pressMs1 == IF pressed THEN t ELSE buttonPressMs
      armed1   == IF pressed THEN TRUE
                  ELSE IF released THEN FALSE ELSE longPressArmed
      evt1     == IF released /\ longPressArmed
                  THEN ClassifyRelease(Sub32(t, buttonPressMs)) ELSE 0
      held     == HeldLong(t, armed1, pressMs1, level2)
  IN  [evt            |-> IF held THEN 2 ELSE evt1,
       lastButtonEdge |-> IF edge THEN t ELSE lastButtonEdge,
       lastButtonLevel|-> IF edge THEN level ELSE lastButtonLevel,
       buttonPressMs  |-> pressMs1,
       longPressArmed |-> armed1]

\* pollButton() at nowMs = t, level and level2 being the values of its two
\* digitalRead(BUTTON_PIN) calls: the event returned and the classifier's state after it
pollButton(t, level, level2) ==
  LET edge     == level # lastButtonLevel /\ DebounceOk(t)
      pressed  == edge /\ level = LOW
      released == edge /\ level # LOW
      pressMs1 == IF pressed THEN t ELSE buttonPressMs
      armed1   == IF pressed THEN TRUE
                  ELSE IF released THEN FALSE ELSE longPressArmed
      evt1     == IF released /\ longPressArmed
                  THEN ClassifyRelease(Sub32(t, buttonPressMs)) ELSE 0
      held     == HeldLong(t, armed1, pressMs1, level2)
  IN  [evt            |-> IF held THEN 2 ELSE evt1,
       lastButtonEdge |-> IF edge THEN t ELSE lastButtonEdge,
       lastButtonLevel|-> IF edge THEN level ELSE lastButtonLevel,
       buttonPressMs  |-> pressMs1,
       longPressArmed |-> IF held THEN FALSE ELSE armed1]

\* ------------------------------------------------------------------------
\* Rendering
\* ------------------------------------------------------------------------
\* the gate of renderIdle
IdleDue(t) == Sub32(t, lastIdleStep) >= IDLE_STEP_MS

\* the pixel buffer after renderIdle's loop, with rainbowOffset already advanced to off
IdleFrame(buf, off) ==
  [p \in Pixels |->
     IF PersonAt[p] < PEOPLE_NB
     THEN colorWheel(U8(off + PersonAt[p] * RAINBOW_SPACING))
     ELSE buf[p]]

\* the gate of renderAnimating
AnimDue(t) == Sub32(t, lastAnimStep) >= ANIM_STEP_MS

\* the pixel buffer after renderAnimating's loop; rnd[i] is the triple of random(0, 255)
\* values drawn for person i
AnimFrame(buf, rnd) ==
  [p \in Pixels |->
     IF PersonAt[p] < PEOPLE_NB
     THEN Color(rnd[PersonAt[p]][1], rnd[PersonAt[p]][2], rnd[PersonAt[p]][3])
     ELSE buf[p]]

\* renderShowSelection without strip.clear()
ShowFrameNoClear(sel, cnt) ==
  [p \in Pixels |->
     IF \E i \in 0..(cnt - 1) : UsedLEDs[sel[i]] = p THEN White ELSE pixels[p]]

\* the pixel buffer after renderShowSelection: clear, then white on the selected
ShowFrame(sel, cnt) ==
  [p \in Pixels |->
     IF \E i \in 0..(cnt - 1) : UsedLEDs[sel[i]] = p THEN White ELSE ClearedStrip[p]]

\* renderIdle with an offset wider than 8 bits
renderIdleWide(t) ==
  IF IdleDue(t)
  THEN LET off == rainbowOffset + 1
           buf == IdleFrame(pixels, off)
       IN  [rainbowOffset |-> off, pixels |-> buf, shown |-> buf, lastIdleStep |-> t]
  ELSE [rainbowOffset |-> rainbowOffset, pixels |-> pixels, shown |-> shown,
        lastIdleStep |-> lastIdleStep]

\* renderIdle() at nowMs = t: the values it leaves in the variables it writes
renderIdle(t) ==
  IF IdleDue(t)
  THEN LET off == U8(rainbowOffset + 1)
           buf == IdleFrame(pixels, off)
       IN  [rainbowOffset |-> off, pixels |-> buf, shown |-> buf, lastIdleStep |-> t]
  ELSE [rainbowOffset |-> rainbowOffset, pixels |-> pixels, shown |-> shown,
        lastIdleStep |-> lastIdleStep]

\* renderAnimating() at nowMs = t with the random values rnd
renderAnimating(t, rnd) ==
  IF AnimDue(t)
  THEN LET buf == AnimFrame(pixels, rnd)
       IN  [pixels |-> buf, shown |-> buf, lastAnimStep |-> t]
  ELSE [pixels |-> pixels, shown |-> shown, lastAnimStep |-> lastAnimStep]

\* ------------------------------------------------------------------------
\* Counting
\* ------------------------------------------------------------------------
\* the increment with its comparison turned round
CountPressFlipped(rc) == IF rc > MAX_REQUEST THEN U8(rc + 1) ELSE rc

\* the increment without its cap
CountPressNoCap(rc) == U8(rc + 1)

\* a short press in COUNTING: if (requestedCount < MAX_REQUEST) requestedCount++
CountPress(rc) == IF rc < MAX_REQUEST THEN U8(rc + 1) ELSE rc

\* the upper clamp with its comparison turned round
FreezeCountFlipped(rc) ==
  LET rc1 == IF rc = 0 THEN 1 ELSE rc
  IN  IF rc1 < PEOPLE_NB THEN PEOPLE_NB ELSE rc1

\* the clamps applied when the count window expires
FreezeCount(rc) ==
  LET rc1 == IF rc = 0 THEN 1 ELSE rc
  IN  IF rc1 > PEOPLE_NB THEN PEOPLE_NB ELSE rc1

\* the expiry test on the deadline as it was when loop() was called
WindowExpiredOld(t, ends) == NonNegI32(Sub32(t, countWindowEnds))

\* the expiry test of the count window: (int32_t)(nowMs - countWindowEnds) >= 0
WindowExpired(t, ends) == NonNegI32(Sub32(t, ends))

\* the selection count without the clamp to the population
SelCountNoClamp(rc) == IF rc > MAX_SEL THEN MAX_SEL ELSE rc

\* the selection count with the branches of its conditional swapped
SelCountSwapped(rc) ==
  LET c == IF rc > PEOPLE_NB THEN rc ELSE PEOPLE_NB
  IN  IF c > MAX_SEL THEN MAX_SEL ELSE c

\* the selection count computed when the animation ends
SelCount(rc) ==
  LET c == IF rc > PEOPLE_NB THEN PEOPLE_NB ELSE rc
  IN  IF c > MAX_SEL THEN MAX_SEL ELSE c

\* the expiry test of the animation
AnimExpired(t) == Sub32(t, stateEnterMs) >= ANIM_MS

\* a hold that never expires
HoldExpiredNever(t) == FALSE

\* the expiry test of the hold
HoldExpired(t) == Sub32(t, stateEnterMs) >= HOLD_MS

\* ------------------------------------------------------------------------
\* Initial state: the globals' initialisers, then setup()
\* ------------------------------------------------------------------------
\* the globals' initialisers with the program at position p, state = s,
\* requestedCount = rc, the table tbl and the LEDs showing lit
Start(p, s, rc, tbl, lit) ==
  /\ state = s
  /\ nowMs = 0
  /\ lastIdleStep = 0
  /\ lastAnimStep = 0
  /\ stateEnterMs = 0
  /\ lastButtonEdge = 0
  /\ lastButtonLevel = HIGH
  /\ longPressArmed = FALSE
  /\ buttonPressMs = 0
  /\ rainbowOffset = 0
  /\ requestedCount = rc
  /\ countWindowEnds = 0
  /\ selectedIdx = [i \in 0..(MAX_SEL - 1) |-> 0]
  /\ selectedCount = 0
  /\ pixels = ClearedStrip
  /\ shown = lit
  /\ pc = p
  /\ count = 0
  /\ btn = 0
  /\ modeAtTick = s
  /\ enteredAt = 0
  /\ ticks = 0
  /\ rawLevel = HIGH
  /\ rawLevel2 = HIGH
  /\ rawUpMs = 0
  /\ relDur = -1
  /\ cycleEvts = 0
  /\ evtGap = Wrapped
  /\ lastEvtMs = -1
  /\ roundPresses = 0
  /\ staleCount = 0
  /\ ledTable = tbl

\* the state after setup() with the table of the sketch
Init == Start("loop", IDLE, 0, UsedLEDs, ClearedStrip)

\* ------------------------------------------------------------------------
\* loop()
\* ------------------------------------------------------------------------
\* the history variables after a call of loop() at nowMs = t that read level and
\* level2 and in which pollButton returned evt
History(t, level, level2, evt) ==
  /\ btn' = evt
  /\ modeAtTick' = state
  /\ enteredAt' = stateEnterMs
  /\ ticks' = ticks + 1
  /\ rawLevel' = level
  /\ rawLevel2' = level2
  /\ rawUpMs' = IF level = HIGH THEN t ELSE rawUpMs
  /\ relDur' = IF rawLevel = LOW /\ level = HIGH THEN t - rawUpMs ELSE -1
  /\ cycleEvts' = (IF rawLevel = HIGH /\ level = LOW THEN 0 ELSE cycleEvts)
                    + (IF evt # 0 THEN 1 ELSE 0)
  /\ evtGap' = IF evt # 0 /\ lastEvtMs >= 0 THEN t - lastEvtMs ELSE evtGap
  /\ lastEvtMs' = IF evt # 0 THEN t ELSE lastEvtMs
  /\ roundPresses' = IF evt = 1 /\ state = IDLE THEN 1
                     ELSE IF evt = 1 /\ state = COUNTING THEN roundPresses + 1
                     ELSE roundPresses
  /\ staleCount' = IF evt = 1 /\ state = IDLE THEN requestedCount ELSE staleCount

\* nowMs = millis(); btn = pollButton();  (b is pollButton's result)
Poll(t, level, level2, b) ==
  /\ History(t, level, level2, b.evt)
  /\ nowMs' = t
  /\ lastButtonEdge' = b.lastButtonEdge
  /\ lastButtonLevel' = b.lastButtonLevel
  /\ buttonPressMs' = b.buttonPressMs
  /\ longPressArmed' = b.longPressArmed
  /\ ledTable' = ledTable

\* enterState without state = s
EnterIdleStay(t) == state' = state /\ stateEnterMs' = t

\* enterState(State::IDLE) at nowMs = t
EnterIdle(t) == state' = IDLE /\ stateEnterMs' = t

\* case State::IDLE with the short press counted on top of requestedCount
LoopIdleKeepCount(t, level, level2) ==
  LET b == pollButton(t, level, level2)
      r == renderIdle(t)
  IN  /\ pc = "loop"
      /\ state = IDLE
      /\ Poll(t, level, level2, b)
      /\ rainbowOffset' = r.rainbowOffset
      /\ lastIdleStep' = r.lastIdleStep
      /\ IF b.evt = 2
         THEN /\ pixels' = ClearedStrip
              /\ shown' = ClearedStrip
              /\ UNCHANGED <<state, stateEnterMs, requestedCount, countWindowEnds>>
         ELSE /\ pixels' = r.pixels
              /\ shown' = r.shown
              /\ IF b.evt = 1
                 THEN /\ requestedCount' = CountPress(requestedCount)
                      /\ state' = COUNTING
                      /\ stateEnterMs' = t
                      /\ countWindowEnds' = Add32(t, COUNT_WINDOW_MS)
                 ELSE UNCHANGED <<state, stateEnterMs, requestedCount, countWindowEnds>>
      /\ UNCHANGED <<lastAnimStep, selectedIdx, selectedCount, pc, count>>

\* case State::IDLE
LoopIdle(t, level, level2) ==
  LET b == pollButton(t, level, level2)
      r == renderIdle(t)
  IN  /\ pc = "loop"
      /\ state = IDLE
      /\ Poll(t, level, level2, b)
      /\ rainbowOffset' = r.rainbowOffset
      /\ lastIdleStep' = r.lastIdleStep
      /\ IF b.evt = 2
         THEN /\ pixels' = ClearedStrip
              /\ shown' = ClearedStrip
              /\ UNCHANGED <<state, stateEnterMs, requestedCount, countWindowEnds>>
         ELSE /\ pixels' = r.pixels
              /\ shown' = r.shown
              /\ IF b.evt = 1
                 THEN /\ requestedCount' = 1
                      /\ state' = COUNTING
                      /\ stateEnterMs' = t
                      /\ countWindowEnds' = Add32(t, COUNT_WINDOW_MS)
                 ELSE UNCHANGED <<state, stateEnterMs, requestedCount, countWindowEnds>>
      /\ UNCHANGED <<lastAnimStep, selectedIdx, selectedCount, pc, count>>

\* case State::COUNTING
LoopCounting(t, level, level2) ==
  LET b    == pollButton(t, level, level2)
      r    == renderIdle(t)
      rc1  == IF b.evt = 1 THEN CountPress(requestedCount) ELSE requestedCount
      end1 == IF b.evt = 1 THEN Add32(t, COUNT_WINDOW_MS) ELSE countWindowEnds
  IN  /\ pc = "loop"
      /\ state = COUNTING
      /\ Poll(t, level, level2, b)
      /\ rainbowOffset' = r.rainbowOffset
      /\ lastIdleStep' = r.lastIdleStep
      /\ pixels' = r.pixels
      /\ shown' = r.shown
      /\ IF b.evt = 2
         THEN /\ requestedCount' = 0
              /\ EnterIdle(t)
              /\ UNCHANGED <<countWindowEnds, lastAnimStep>>
         ELSE /\ countWindowEnds' = end1
              /\ IF WindowExpired(t, end1)
                 THEN /\ requestedCount' = FreezeCount(rc1)
                      /\ state' = ANIMATING
                      /\ stateEnterMs' = t
                      /\ lastAnimStep' = 0
                 ELSE /\ requestedCount' = rc1
                      /\ UNCHANGED <<state, stateEnterMs, lastAnimStep>>
      /\ UNCHANGED <<selectedIdx, selectedCount, pc, count>>

\* enterState(State::SHOW) without stateEnterMs = nowMs
EnterShowNoStamp(t, sel, cnt) ==
  /\ state' = SHOW
  /\ stateEnterMs' = stateEnterMs
  /\ pixels' = ShowFrame(sel, cnt)
  /\ shown' = ShowFrame(sel, cnt)

\* enterState(State::SHOW) at nowMs = t with the selection sel[0..cnt-1]
EnterShow(t, sel, cnt) ==
  /\ state' = SHOW
  /\ stateEnterMs' = t
  /\ pixels' = ShowFrame(sel, cnt)
  /\ shown' = ShowFrame(sel, cnt)

\* case State::ANIMATING with the expiry tested before the long press
LoopAnimatingExpiryFirst(t, level, level2, rnd) ==
  LET b == pollButton(t, level, level2)
      r == renderAnimating(t, rnd)
      k == SelCount(requestedCount)
  IN  /\ pc = "loop"
      /\ state = ANIMATING
      /\ Poll(t, level, level2, b)
      /\ lastAnimStep' = r.lastAnimStep
      /\ IF AnimExpired(t)
         THEN /\ selectedCount' = k
              /\ count' = 0
              /\ IF 0 < k
                 THEN /\ pc' = "pick"
                      /\ pixels' = r.pixels
                      /\ shown' = r.shown
                      /\ UNCHANGED <<state, stateEnterMs>>
                 ELSE /\ pc' = "loop"
                      /\ EnterShow(t, selectedIdx, k)
         ELSE IF b.evt = 2
         THEN /\ EnterIdle(t)
              /\ pixels' = r.pixels
              /\ shown' = r.shown
              /\ UNCHANGED <<selectedCount, pc, count>>
         ELSE /\ pixels' = r.pixels
              /\ shown' = r.shown
              /\ UNCHANGED <<state, stateEnterMs, selectedCount, pc, count>>
      /\ UNCHANGED <<lastIdleStep, rainbowOffset, requestedCount, countWindowEnds,
                     selectedIdx>>

\* case State::ANIMATING
LoopAnimatingWith(t, level, level2, rnd) ==
  LET b == pollButton(t, level, level2)
      r == renderAnimating(t, rnd)
      k == SelCount(requestedCount)
  IN  /\ pc = "loop"
      /\ state = ANIMATING
      /\ Poll(t, level, level2, b)
      /\ lastAnimStep' = r.lastAnimStep
      /\ IF b.evt = 2
         THEN /\ EnterIdle(t)
              /\ pixels' = r.pixels
              /\ shown' = r.shown
              /\ UNCHANGED <<selectedCount, pc, count>>
         ELSE IF AnimExpired(t)
         THEN /\ selectedCount' = k
              /\ count' = 0
              /\ IF 0 < k
                 THEN /\ pc' = "pick"
                      /\ pixels' = r.pixels
                      /\ shown' = r.shown
                      /\ UNCHANGED <<state, stateEnterMs>>
                 ELSE /\ pc' = "loop"
                      /\ EnterShow(t, selectedIdx, k)
         ELSE /\ pixels' = r.pixels
              /\ shown' = r.shown
              /\ UNCHANGED <<state, stateEnterMs, selectedCount, pc, count>>
      /\ UNCHANGED <<lastIdleStep, rainbowOffset, requestedCount, countWindowEnds,
                     selectedIdx>>

\* the random values are drawn only when the frame is rendered
LoopAnimating(t, level, level2) ==
  IF AnimDue(t)
  THEN \E rnd \in RandomFrames : LoopAnimatingWith(t, level, level2, rnd)
  ELSE LoopAnimatingWith(t, level, level2, [i \in People |-> <<0, 0, 0>>])

\* one iteration of pickUniqueRandom's while loop, r being the value of
\* random(0, PEOPLE_NB); the iteration that fills out[k-1] returns to loop(),
\* which enters SHOW
PickDraw(r) ==
  /\ pc = "pick"
  /\ count < selectedCount
  /\ IF ~contains(selectedIdx, count, r)
     THEN LET out == [selectedIdx EXCEPT ![count] = r]
          IN  /\ selectedIdx' = out
              /\ count' = count + 1
              /\ IF count + 1 < selectedCount
                 THEN UNCHANGED <<pc, state, stateEnterMs, pixels, shown>>
                 ELSE /\ pc' = "loop"
                      /\ EnterShow(nowMs, out, selectedCount)
     ELSE UNCHANGED <<selectedIdx, count, pc, state, stateEnterMs, pixels, shown>>
  /\ UNCHANGED <<nowMs, lastIdleStep, lastAnimStep, lastButtonEdge, lastButtonLevel,
                 longPressArmed, buttonPressMs, rainbowOffset, requestedCount,
                 countWindowEnds, selectedCount, btn, modeAtTick, enteredAt, ticks,
                 rawLevel, rawLevel2, rawUpMs, relDur, cycleEvts, evtGap, lastEvtMs,
                 roundPresses, staleCount, ledTable>>

\* case State::SHOW leaving for IDLE on any event
LoopShowAnyEvent(t, level, level2) ==
  LET b == pollButton(t, level, level2)
  IN  /\ pc = "loop"
      /\ state = SHOW
      /\ Poll(t, level, level2, b)
      /\ IF b.evt # 0 \/ HoldExpired(t)
         THEN /\ EnterIdle(t)
         ELSE UNCHANGED <<state, stateEnterMs>>
      /\ UNCHANGED <<lastIdleStep, lastAnimStep, rainbowOffset, requestedCount,
                     countWindowEnds, selectedIdx, selectedCount, pixels, shown,
                     pc, count>>

\* case State::SHOW
LoopShow(t, level, level2) ==
  LET b == pollButton(t, level, level2)
  IN  /\ pc = "loop"
      /\ state = SHOW
      /\ Poll(t, level, level2, b)
      /\ IF b.evt = 2 \/ HoldExpired(t)
         THEN /\ EnterIdle(t)
         ELSE UNCHANGED <<state, stateEnterMs>>
      /\ UNCHANGED <<lastIdleStep, lastAnimStep, rainbowOffset, requestedCount,
                     countWindowEnds, selectedIdx, selectedCount, pixels, shown,
                     pc, count>>

\* one call of loop(), dt ms after the previous one
Loop(dt, level, level2) ==
  LET t == Add32(nowMs, dt)
  IN  \/ LoopIdle(t, level, level2)
      \/ LoopCounting(t, level, level2)
      \/ LoopAnimating(t, level, level2)
      \/ LoopShow(t, level, level2)

\* the calls of loop() explored: at most n of them up to the clock value maxT,
\* every delay in D and every value of the first read; the second read is any
\* value too if moves (the button may move between the two reads of one call),
\* and the value of the first otherwise
Tick(D, n, maxT, moves) ==
  \E dt \in D, level \in BOOLEAN, level2 \in BOOLEAN :
    /\ moves \/ level2 = level
    /\ ticks < n
    /\ nowMs + dt <= maxT
    /\ Loop(dt, level, level2)

Draw == \E r \in People : PickDraw(r)

Next ==
  \/ Tick(Deltas, MaxTicks, MaxTime, FALSE)
  \/ Draw

Spec == Init /\ [][Next]_vars

\* The same program with the calls of loop() close enough to each other for the
\* debounce gate to reject edges, and with the button moving between the two reads.
NextBtn ==
  \/ Tick(BtnDeltas, BtnTicks, BtnTime, TRUE)
  \/ Draw

SpecBtn == Init /\ [][NextBtn]_vars

\* ------------------------------------------------------------------------
\* setup()
\* ------------------------------------------------------------------------
\* the tables setup() is given: the one of the sketch, and that table with one entry
\* replaced by the first position past the strip or by the largest uint8_t
Tables ==
  {UsedLEDs} \cup
  { [UsedLEDs EXCEPT ![i] = v] : i \in People, v \in {NUM_LEDS, 255} }

\* what the LEDs show at power-up, before the first strip.show(): nothing, or all lit
PowerUpFrames == { ClearedStrip, [p \in Pixels |-> White] }

\* setup() without the range check
SetupNoCheck ==
  /\ pc = "setup"
  /\ pixels' = ClearedStrip
  /\ shown' = ClearedStrip
  /\ pc' = "loop"
  /\ EnterIdle(nowMs)
  /\ UNCHANGED <<nowMs, lastIdleStep, lastAnimStep, lastButtonEdge, lastButtonLevel,
                 longPressArmed, buttonPressMs, rainbowOffset, requestedCount,
                 countWindowEnds, selectedIdx, selectedCount, count, btn, modeAtTick,
                 enteredAt, ticks, rawLevel, rawLevel2, rawUpMs, relDur, cycleEvts,
                 evtGap, lastEvtMs, roundPresses, staleCount, ledTable>>

\* setup(): strip.begin(), clear(), show(); then the range check, which never
\* returns if an entry is out of range; then enterState(State::IDLE)
Setup ==
  /\ pc = "setup"
  /\ pixels' = ClearedStrip
  /\ shown' = ClearedStrip
  /\ IF \E i \in People : ledTable[i] >= NUM_LEDS
     THEN /\ pc' = "halt"
          /\ UNCHANGED <<state, stateEnterMs>>
     ELSE /\ pc' = "loop"
          /\ EnterIdle(nowMs)
  /\ UNCHANGED <<nowMs, lastIdleStep, lastAnimStep, lastButtonEdge, lastButtonLevel,
                 longPressArmed, buttonPressMs, rainbowOffset, requestedCount,
                 countWindowEnds, selectedIdx, selectedCount, count, btn, modeAtTick,
                 enteredAt, ticks, rawLevel, rawLevel2, rawUpMs, relDur, cycleEvts,
                 evtGap, lastEvtMs, roundPresses, staleCount, ledTable>>

\* The program from power-up, with any of the tables
InitBoot ==
  \E tbl \in Tables, lit \in PowerUpFrames : Start("setup", IDLE, 0, tbl, lit)

NextBoot ==
  \/ Setup
  \/ Tick(Deltas, BootTicks, MaxTime, FALSE)
  \/ Draw

SpecBoot == InitBoot /\ [][NextBoot]_vars

\* The end of the animation as a function of requestedCount: the program in
\* ANIMATING with requestedCount = k for every k in 1..MaxRequest, also the values
\* above PEOPLE_NB that COUNTING never leaves there.  A draw that is accepted is
\* taken eventually (random() does not return values already selected for ever).
InitSelect ==
  \E k \in 1..MaxRequest : Start("loop", ANIMATING, k, UsedLEDs, ClearedStrip)

NextSelect ==
  \/ Tick(Deltas, SelTicks, MaxTime, FALSE)
  \/ Draw

SpecSelect == InitSelect /\ [][NextSelect]_vars /\ WF_vars(Draw)

\* a call of loop(), dt ms after the previous one for a dt in D and up to the clock
\* value maxT, that reads the button where the previous call read it
Quiet(D, maxT) ==
  \E dt \in D :
    /\ nowMs + dt <= maxT
    /\ Loop(dt, rawLevel, rawLevel)

\* The program with the button left alone after the first LiveTicks calls of
\* loop().  loop() is called again and again with millis() advancing, and random()
\* does not return already selected values for ever.
NextLive ==
  \/ Tick(Deltas, LiveTicks, LiveTime, FALSE)
  \/ Quiet(LiveDeltas, LiveTime)
  \/ Draw

SpecLive ==
  Init /\ [][NextLive]_vars /\ WF_vars(Quiet(LiveDeltas, LiveTime)) /\ WF_vars(Draw)

\* The program left to render idle frames: calls of loop() one idle step apart
NextHue ==
  \/ Tick(Deltas, HueTicks, HueTime, FALSE)
  \/ Quiet(HueDeltas, HueTime)
  \/ Draw

SpecHue == Init /\ [][NextHue]_vars

\* The same program with calls of loop() far enough apart to reach the end of the hold
NextHold ==
  \/ Tick(HoldDeltas, HoldTicks, HoldTime, FALSE)
  \/ Draw

SpecHold == Init /\ [][NextHold]_vars

\* The same program with calls of loop() half a count window apart
NextWin ==
  \/ Tick(WinDeltas, WinTicks, WinTime, FALSE)
  \/ Draw

SpecWin == Init /\ [][NextWin]_vars

\* a call of loop(), dt ms after the previous one for a dt in D, among the first n
\* calls and up to the clock value maxT, that reads the button changed
Toggle(D, n, maxT) ==
  \E dt \in D :
    /\ ticks < n
    /\ nowMs + dt <= maxT
    /\ Loop(dt, ~rawLevel, ~rawLevel)

\* The program through several rounds: taps, and waits with the button unchanged
NextRounds ==
  \/ Toggle(RoundTaps, RoundTicks, RoundTime)
  \/ Quiet(RoundWaits, RoundTime)
  \/ Draw

SpecRounds == Init /\ [][NextRounds]_vars

TypeOK ==
  /\ state \in {IDLE, COUNTING, ANIMATING, SHOW}
  /\ requestedCount \in 0..255
  /\ selectedCount \in 0..MAX_SEL
  /\ btn \in 0..2

\* ------------------------------------------------------------------------
\* Properties
\* ------------------------------------------------------------------------
Min(a, b) == IF a < b THEN a ELSE b

\* the first n entries of arr are pairwise distinct indices of people
DistinctPeople(arr, n) ==
  /\ \A i \in 0..(n - 1) : arr[i] \in People
  /\ \A i, j \in 0..(n - 1) : i # j => arr[i] # arr[j]

\* the last call of loop() made the transition from COUNTING to ANIMATING
FrozeCount == modeAtTick = COUNTING /\ state = ANIMATING

\* C1: for a request of k people, 1 <= k <= PEOPLE_NB, pickUniqueRandom leaves exactly
\* k values in selectedIdx[0..k-1], pairwise distinct and each in [0, PEOPLE_NB),
\* whatever values random() returns: the values accepted so far are distinct people
\* at every iteration, and when the selection is shown count has reached k.
C1_UniqueSelection ==
  /\ pc = "pick" =>
       /\ count < selectedCount
       /\ selectedCount \in 1..PEOPLE_NB
       /\ DistinctPeople(selectedIdx, count)
  /\ state = SHOW =>
       /\ count = selectedCount
       /\ DistinctPeople(selectedIdx, selectedCount)

\* a selection of 3 people has been drawn
C1_Witness == state = SHOW /\ selectedCount = 3 /\ count = 3

\* C2: n short presses in one round, 1 <= n <= PEOPLE_NB (the first in IDLE, the
\* others in COUNTING), lead to a SHOW of exactly n people: without a long press
\* COUNTING is left for ANIMATING only and ANIMATING for SHOW only, and in SHOW
\* selectedCount is the number of short presses of the round.
C2_PressesSelectPeople ==
  /\ []((state = SHOW /\ roundPresses <= PEOPLE_NB) => selectedCount = roundPresses)
  /\ [][(state = IDLE /\ btn' = 1) => state' = COUNTING]_vars
  /\ [][(state = COUNTING /\ state' # COUNTING /\ btn' # 2) => state' = ANIMATING]_vars
  /\ [][(state = ANIMATING /\ state' # ANIMATING /\ btn' # 2) => state' = SHOW]_vars

\* SHOW after 3 short presses
C2_Witness == state = SHOW /\ roundPresses = 3 /\ selectedCount = 3

\* C3 as stated: the short press that enters COUNTING followed by 3 short presses
\* in COUNTING yields requestedCount = 3 when the window expires.
C3_Original == (FrozeCount /\ roundPresses = 1 + 3) => requestedCount = 3

\* C3 amended: the press that entered COUNTING counts as one, so 3 further presses
\* yield min(4, PEOPLE_NB), and requestedCount = 3 results from 2 further presses.
C3_CountingWindow ==
  /\ (FrozeCount /\ roundPresses = 1 + 3) => requestedCount = Min(4, PEOPLE_NB)
  /\ (FrozeCount /\ roundPresses = 1 + 2) => requestedCount = Min(3, PEOPLE_NB)

\* the window expired after the entering press and 3 more
C3_Witness == FrozeCount /\ roundPresses = 4 /\ requestedCount = 4

\* C4: at every COUNTING -> ANIMATING transition requestedCount is in
\* [1, PEOPLE_NB], and it is 1 when no press followed the one that entered COUNTING.
C4_FrozenCountInRange ==
  FrozeCount =>
    /\ requestedCount \in 1..PEOPLE_NB
    /\ roundPresses = 1 => requestedCount = 1

\* the window expired with no further press
C4_Witness == FrozeCount /\ roundPresses = 1 /\ requestedCount = 1

\* C5: requestedCount never exceeds PEOPLE_NB, and every short press in COUNTING
\* applies requestedCount = min(requestedCount + 1, PEOPLE_NB).
C5_CountCapped ==
  /\ [](requestedCount <= PEOPLE_NB)
  /\ [][(ticks' = ticks + 1 /\ state = COUNTING /\ btn' = 1)
          => requestedCount' = Min(requestedCount + 1, PEOPLE_NB)]_vars

\* more short presses than people: the last one left requestedCount at PEOPLE_NB
C5_Witness ==
  /\ modeAtTick = COUNTING /\ btn = 1
  /\ roundPresses > PEOPLE_NB
  /\ requestedCount = PEOPLE_NB

\* C6 as stated: a long press in COUNTING, ANIMATING or SHOW lands in IDLE with
\* requestedCount reset to 0 and the selection discarded.
C6_Original ==
  (btn = 2 /\ modeAtTick \in {COUNTING, ANIMATING, SHOW}) =>
    (state = IDLE /\ requestedCount = 0 /\ selectedCount = 0)

\* C6 amended: a long press in COUNTING, ANIMATING or SHOW lands in IDLE in the same
\* call of loop(); requestedCount is reset to 0 from COUNTING only; from ANIMATING
\* and SHOW requestedCount, selectedCount and selectedIdx keep their values.
C6_LongPressToIdle ==
  /\ []((btn = 2 /\ modeAtTick \in {COUNTING, ANIMATING, SHOW}) => state = IDLE)
  /\ []((btn = 2 /\ modeAtTick = COUNTING) => requestedCount = 0)
  /\ [][(ticks' = ticks + 1 /\ btn' = 2 /\ state \in {ANIMATING, SHOW})
          => UNCHANGED <<requestedCount, selectedCount, selectedIdx>>]_vars
  /\ [][(ticks' = ticks + 1 /\ btn' = 2 /\ state = COUNTING)
          => UNCHANGED <<selectedCount, selectedIdx>>]_vars

\* a long press in SHOW: back in IDLE, the count and the selection still there
C6_Witness ==
  /\ btn = 2 /\ modeAtTick = SHOW /\ state = IDLE
  /\ requestedCount > 0 /\ selectedCount > 0

\* the frame of the selection: white on the pixels of the selected people, off elsewhere
SelectionFrame ==
  [p \in Pixels |->
     IF p \in {UsedLEDs[selectedIdx[i]] : i \in 0..(selectedCount - 1)}
     THEN 16777215 ELSE 0]

\* C10: in SHOW the display shows white on exactly the pixels of the selected
\* people and nothing elsewhere, and a call of loop() that stays in SHOW leaves the
\* display and the pixel buffer as they are.
C10_ShowFrame ==
  /\ [](state = SHOW => (shown = SelectionFrame /\ pixels = SelectionFrame))
  /\ [][(state = SHOW /\ state' = SHOW) => (shown' = shown /\ pixels' = pixels)]_vars

\* a call of loop() in SHOW that stayed in SHOW, two people selected
C10_Witness == state = SHOW /\ modeAtTick = SHOW /\ selectedCount = 2

\* the current call of loop() (the step) reads the button; dur is the time since the
\* press edge last accepted
PressAge == Sub32(nowMs', buttonPressMs)

\* C7: once a press edge is accepted, a call of loop() that reads the button down
\* (both reads) LONG_PRESS_MS or more after it returns the long press and disarms,
\* and from the moment the button is read going down until it is next read going
\* down at most one event is returned: the release of a press already reported
\* as long returns nothing, however late it comes.
C7_LongPressOnce ==
  /\ [](cycleEvts <= 1)
  /\ [][(ticks' = ticks + 1 /\ longPressArmed
          /\ rawLevel' = LOW /\ rawLevel2' = LOW /\ PressAge >= LONG_PRESS_MS)
          => (btn' = 2 /\ ~longPressArmed')]_vars
  /\ [][(ticks' = ticks + 1 /\ ~longPressArmed /\ lastButtonLevel = LOW)
          => btn' = 0]_vars

\* the release of a press held past LONG_PRESS_MS, whose long press was returned
\* while it was held: this call returns nothing
C7_Witness ==
  /\ relDur >= LONG_PRESS_MS /\ lastButtonLevel = HIGH /\ lastButtonEdge = nowMs
  /\ btn = 0 /\ cycleEvts = 1

\* C8 as stated: the call of loop() that reads the release of a press that lasted
\* less than LONG_PRESS_MS returns the short press, whenever the press came
\* (stated here for the presses that follow an accepted edge; the gate also covers
\* the first DEBOUNCE_MS after start, lastButtonEdge being 0 then).
C8_Original ==
  (0 <= relDur /\ relDur < LONG_PRESS_MS /\ lastButtonEdge > 0) => btn = 1

\* C8 amended: a press accepted as an edge returns nothing while it is armed and
\* younger than LONG_PRESS_MS, except in the call of loop() that reads the button
\* released more than DEBOUNCE_MS after the accepted press edge: that call returns
\* the short press (never the long one) and disarms.
C8_ShortPress ==
  /\ [][(ticks' = ticks + 1 /\ longPressArmed /\ rawLevel' = HIGH
          /\ PressAge > DEBOUNCE_MS /\ PressAge < LONG_PRESS_MS)
          => (btn' = 1 /\ ~longPressArmed')]_vars
  /\ [][(ticks' = ticks + 1 /\ longPressArmed /\ PressAge < LONG_PRESS_MS
          /\ ~(rawLevel' = HIGH /\ PressAge > DEBOUNCE_MS))
          => (btn' = 0 /\ longPressArmed')]_vars

\* a short press returned by the call that read the release
C8_Witness ==
  /\ btn = 1 /\ 0 <= relDur /\ relDur < LONG_PRESS_MS
  /\ lastButtonEdge = nowMs /\ Sub32(nowMs, buttonPressMs) > DEBOUNCE_MS

\* C9: a level that differs from the last accepted one DEBOUNCE_MS or less after
\* the last accepted edge is not accepted by that call of loop(), which returns no
\* event and leaves the classifier as it was; and two events are never returned
\* within DEBOUNCE_MS of each other.
C9_Debounce ==
  /\ [](evtGap > DEBOUNCE_MS)
  /\ [][(ticks' = ticks + 1 /\ rawLevel' # lastButtonLevel
          /\ Sub32(nowMs', lastButtonEdge) <= DEBOUNCE_MS)
          => (btn' = 0 /\ UNCHANGED <<lastButtonEdge, lastButtonLevel,
                                      buttonPressMs, longPressArmed>>)]_vars

\* a flip read within DEBOUNCE_MS of an accepted edge, after an event was returned
C9_Witness ==
  /\ rawLevel # lastButtonLevel /\ lastButtonEdge > 0
  /\ Sub32(nowMs, lastButtonEdge) <= DEBOUNCE_MS
  /\ lastEvtMs >= 0


\* C11: a request k above PEOPLE_NB is treated as PEOPLE_NB: the count given to
\* pickUniqueRandom is PEOPLE_NB, there is always a person not yet selected for the
\* loop to accept, the selection ends, and it ends with PEOPLE_NB pairwise distinct
\* values in [0, PEOPLE_NB).
C11_ClampToPopulation ==
  /\ []((pc = "pick" /\ requestedCount > PEOPLE_NB) =>
          /\ selectedCount = PEOPLE_NB
          /\ count < PEOPLE_NB
          /\ \E r \in People : ~contains(selectedIdx, count, r))
  /\ []((state = SHOW /\ requestedCount > PEOPLE_NB) =>
          /\ selectedCount = PEOPLE_NB
          /\ count = PEOPLE_NB
          /\ DistinctPeople(selectedIdx, PEOPLE_NB)
          /\ {selectedIdx[i] : i \in 0..(PEOPLE_NB - 1)} = People)
  /\ (pc = "pick") ~> (pc = "loop" /\ state = SHOW)

\* a request above PEOPLE_NB has been served: everybody is selected
C11_Witness ==
  /\ state = SHOW /\ requestedCount > PEOPLE_NB + 1
  /\ selectedCount = PEOPLE_NB /\ count = PEOPLE_NB

\* every entry of the table is a position of the strip
TableInRange == \A i \in People : ledTable[i] \in Pixels

\* C12: with an entry of the table outside the strip, setup() never returns: no call
\* of loop() is ever made, no button event is ever returned and the LEDs, cleared
\* before the check, stay off; nothing happens after the halt.  With every entry in
\* range setup() ends with the program in IDLE, ready for loop().
C12_StartupValidation ==
  /\ [](~TableInRange =>
          /\ pc \in {"setup", "halt"}
          /\ ticks = 0 /\ btn = 0 /\ lastEvtMs = -1
          /\ pixels = ClearedStrip)
  /\ [](pc = "halt" => (~TableInRange /\ shown = ClearedStrip))
  /\ [][pc = "setup" =>
          IF TableInRange THEN pc' = "loop" /\ state' = IDLE /\ shown' = ClearedStrip
          ELSE pc' = "halt"]_vars
  /\ [][pc # "halt"]_vars

\* halted on a table with an entry out of range, the LEDs off
C12_Witness == pc = "halt" /\ ~TableInRange /\ shown = ClearedStrip /\ ticks = 0

MaxOf(S) == CHOOSE d \in S : \A e \in S : e <= d

\* the clock values explored leave room for a whole round: the three timers, each
\* found expired by a call of loop() that may come a whole delay late
RoomForRound ==
  nowMs + COUNT_WINDOW_MS + ANIM_MS + HOLD_MS + 3 * MaxOf(LiveDeltas) <= LiveTime

\* C13: with no button event, calls of loop() that keep coming and fair draws, the
\* program comes back to IDLE from every state.  A call of loop() without event
\* leaves COUNTING for ANIMATING exactly when the window has expired; a call without
\* long press leaves ANIMATING for the selection exactly when ANIM_MS have passed
\* since it was entered, and the selection ends in SHOW; a call without long press
\* leaves SHOW for IDLE exactly when HOLD_MS have passed since it was entered.
C13_ReturnsToIdle ==
  /\ (state # IDLE /\ btn = 0 /\ RoomForRound) ~> (state = IDLE \/ btn # 0)
  /\ (pc = "pick") ~> (pc = "loop" /\ state = SHOW)
  /\ [][(ticks' = ticks + 1 /\ state = COUNTING /\ btn' = 0) =>
          state' = IF nowMs' >= countWindowEnds THEN ANIMATING ELSE COUNTING]_vars
  /\ [][(ticks' = ticks + 1 /\ state = ANIMATING /\ btn' # 2) =>
          IF nowMs' - stateEnterMs >= ANIM_MS
          THEN pc' = "pick" /\ selectedCount' \in 1..PEOPLE_NB
          ELSE pc' = "loop" /\ state' = ANIMATING]_vars
  /\ [][(ticks' = ticks + 1 /\ state = SHOW /\ btn' # 2) =>
          state' = IF nowMs' - stateEnterMs >= HOLD_MS THEN IDLE ELSE SHOW]_vars

\* the hold expired without any event: back in IDLE
C13_Witness ==
  /\ state = IDLE /\ modeAtTick = SHOW /\ btn = 0
  /\ nowMs - stateEnterMs = 0 /\ lastEvtMs + HOLD_MS <= nowMs

\* the hue value of slot i for the base offset off
Hue(off, i) == (off + i * RAINBOW_SPACING) % 256

\* this call of loop() renders an idle frame
IdleRender ==
  /\ ticks' = ticks + 1
  /\ state \in {IDLE, COUNTING}
  /\ nowMs' - lastIdleStep >= IDLE_STEP_MS

\* C14: rainbowOffset stays in 0..255; a call of loop() that renders an idle frame
\* advances it by exactly 1 modulo 256, so the hue value of every slot steps by 1 and
\* wraps from 255 to 0, and the frame sent shows every slot at the hue-wheel colour
\* of its new hue value (unless a long press in IDLE blanks the strip in the same
\* call); any other step leaves rainbowOffset as it is.
C14_IdleHueStep ==
  /\ [](rainbowOffset \in 0..255)
  /\ [][IdleRender =>
          /\ rainbowOffset' = (rainbowOffset + 1) % 256
          /\ rainbowOffset = 255 => rainbowOffset' = 0
          /\ \A i \in People :
               /\ Hue(rainbowOffset', i) = (Hue(rainbowOffset, i) + 1) % 256
               /\ ~(state = IDLE /\ btn' = 2) =>
                    shown'[UsedLEDs[i]] = colorWheel(Hue(rainbowOffset', i))]_vars
  /\ [][~IdleRender => rainbowOffset' = rainbowOffset]_vars

\* the 256th idle frame: the offset is back at 0 and slot 0, whose hue value was 255
\* on the frame before, shows the colour of hue value 0
C14_Witness ==
  /\ state = IDLE /\ ticks = 256 /\ rainbowOffset = 0
  /\ shown[UsedLEDs[0]] = colorWheel(0)
  /\ shown[UsedLEDs[1]] = colorWheel(RAINBOW_SPACING)


\* the timer of the mode in which this call of loop() starts has expired at its nowMs
TimerExpired ==
  \/ state = COUNTING /\ nowMs' >= countWindowEnds
  \/ state = ANIMATING /\ nowMs' - stateEnterMs >= ANIM_MS
  \/ state = SHOW /\ nowMs' - stateEnterMs >= HOLD_MS

\* C15: a call of loop() that starts in COUNTING, ANIMATING or SHOW and in which
\* pollButton returns the long press ends in IDLE, entered at that call's nowMs,
\* also when the mode's timer has expired at that nowMs: the program is not left
\* in ANIMATING, in the selection or in SHOW, selectedCount and selectedIdx are not
\* written, and from SHOW the strip is left as it is.
C15_LongPressSameTick ==
  /\ []((btn = 2 /\ modeAtTick \in {COUNTING, ANIMATING, SHOW}) =>
          (state = IDLE /\ pc = "loop" /\ stateEnterMs = nowMs))
  /\ [][(ticks' = ticks + 1 /\ btn' = 2 /\ state # IDLE /\ TimerExpired) =>
          /\ state' = IDLE /\ pc' = "loop"
          /\ UNCHANGED <<selectedIdx, selectedCount, count>>
          /\ state # COUNTING => UNCHANGED requestedCount
          /\ state = SHOW => UNCHANGED <<pixels, shown>>]_vars

\* a long press returned in SHOW by the call of loop() that also finds the hold over
C15_Witness ==
  /\ btn = 2 /\ modeAtTick = SHOW /\ state = IDLE
  /\ nowMs - enteredAt >= HOLD_MS

\* what a call of loop() without event does in ANIMATING and in SHOW, as a relation
\* between the state before and after it that does not mention the event
NoEventOutcome ==
  /\ UNCHANGED <<requestedCount, countWindowEnds, selectedIdx>>
  /\ state = ANIMATING =>
       /\ state' = ANIMATING /\ stateEnterMs' = stateEnterMs
       /\ IF nowMs' - stateEnterMs >= ANIM_MS
          THEN pc' = "pick" /\ selectedCount' = Min(requestedCount, PEOPLE_NB)
          ELSE pc' = "loop" /\ selectedCount' = selectedCount
  /\ state = SHOW =>
       /\ UNCHANGED <<selectedCount, pixels, shown, pc>>
       /\ IF nowMs' - stateEnterMs >= HOLD_MS
          THEN state' = IDLE /\ stateEnterMs' = nowMs'
          ELSE state' = SHOW /\ stateEnterMs' = stateEnterMs

\* C16: a call of loop() that starts in ANIMATING or SHOW and in which pollButton
\* returns the short press does what a call without event does: state,
\* requestedCount, selectedIdx, selectedCount and stateEnterMs (and with it the time
\* at which the animation or the hold ends) get the values they get without event.
C16_ShortPressIgnored ==
  [][(ticks' = ticks + 1 /\ state \in {ANIMATING, SHOW} /\ btn' \in {0, 1})
       => NoEventOutcome]_vars

\* a short press returned in ANIMATING by the call of loop() that finds the animation
\* over: the selection is opened as without event
C16_Witness ==
  /\ btn = 1 /\ modeAtTick = ANIMATING /\ pc = "pick"
  /\ nowMs - stateEnterMs >= ANIM_MS /\ count = 0

\* a timestamp that the current mode reads is the reset value or was written since
\* the mode was entered
SinceEntry(ts) == ts = 0 \/ ts >= stateEnterMs

\* C17 as stated: the render timestamps are reset on every transition, so the
\* gate of renderIdle in IDLE and COUNTING and the gate of renderAnimating in
\* ANIMATING never read a value written before the mode was entered.
C17_Original ==
  /\ state \in {IDLE, COUNTING} => SinceEntry(lastIdleStep)
  /\ state = ANIMATING => SinceEntry(lastAnimStep)

\* C17 amended: every change of mode sets stateEnterMs to nowMs; entering COUNTING
\* sets countWindowEnds to nowMs + COUNT_WINDOW_MS and entering ANIMATING sets
\* lastAnimStep to 0, so the expiry tests and the gate of renderAnimating read
\* values written since the mode was entered.  lastIdleStep is shared by IDLE and
\* COUNTING and no transition resets it: it is written only by a call of loop()
\* that renders an idle frame, and a call that starts in ANIMATING or SHOW leaves
\* it as the last idle frame left it.
C17_TimestampsOnTransition ==
  /\ [][state' # state => stateEnterMs' = nowMs']_vars
  /\ [][(state' # state /\ state' = COUNTING) =>
          countWindowEnds' = nowMs' + COUNT_WINDOW_MS]_vars
  /\ [][(state' # state /\ state' = ANIMATING) => lastAnimStep' = 0]_vars
  /\ [](state = ANIMATING => SinceEntry(lastAnimStep))
  /\ [](state = COUNTING => countWindowEnds >= stateEnterMs + COUNT_WINDOW_MS)
  /\ [](stateEnterMs <= nowMs)
  /\ [][lastIdleStep' # lastIdleStep =>
          /\ state \in {IDLE, COUNTING}
          /\ nowMs' - lastIdleStep >= IDLE_STEP_MS
          /\ lastIdleStep' = nowMs']_vars

\* IDLE entered from ANIMATING or SHOW with lastIdleStep still at the time of the
\* last idle frame of COUNTING
C17_Witness ==
  /\ modeAtTick \in {ANIMATING, SHOW} /\ state = IDLE /\ stateEnterMs = nowMs
  /\ 0 < lastIdleStep /\ lastIdleStep < enteredAt

\* the people selected
Selected == {selectedIdx[i] : i \in 0..(selectedCount - 1)}

\* C18: from the moment the animation ends (the selection being drawn, then SHOW)
\* selectedCount = min(requestedCount, PEOPLE_NB, MAX_SEL), and in SHOW
\* selectedIdx[0..selectedCount-1] holds selectedCount different people, with
\* 1 <= selectedCount <= PEOPLE_NB.
C18_SelectionInvariant ==
  /\ (pc = "pick" \/ state = SHOW) =>
       selectedCount = Min(Min(requestedCount, PEOPLE_NB), MAX_SEL)
  /\ state = SHOW =>
       /\ 1 <= selectedCount /\ selectedCount <= PEOPLE_NB
       /\ Selected \subseteq People
       /\ Cardinality(Selected) = selectedCount

\* SHOW just entered from ANIMATING with 3 of the people
C18_Witness ==
  /\ state = SHOW /\ modeAtTick = ANIMATING /\ stateEnterMs = nowMs
  /\ requestedCount = 3 /\ Cardinality(Selected) = 3

\* C19: a call of loop() in COUNTING in which pollButton returns the short press,
\* at a nowMs at or past countWindowEnds, still counts the press
\* (requestedCount = min(requestedCount + 1, PEOPLE_NB)), moves countWindowEnds to
\* nowMs + COUNT_WINDOW_MS and ends in COUNTING; COUNTING is left for ANIMATING only
\* by a call without event whose nowMs is at or past countWindowEnds.
C19_LatePressExtends ==
  /\ [][(ticks' = ticks + 1 /\ state = COUNTING /\ btn' = 1
          /\ nowMs' >= countWindowEnds) =>
          /\ requestedCount' = Min(requestedCount + 1, PEOPLE_NB)
          /\ countWindowEnds' = nowMs' + COUNT_WINDOW_MS
          /\ state' = COUNTING]_vars
  /\ [][(state = COUNTING /\ state' = ANIMATING) =>
          /\ ticks' = ticks + 1 /\ btn' = 0
          /\ nowMs' >= countWindowEnds
          /\ countWindowEnds' = countWindowEnds]_vars

\* the second press of a round returned a whole window or more after COUNTING was
\* entered, past the deadline set on entry: counted, and still in COUNTING
C19_Witness ==
  /\ btn = 1 /\ modeAtTick = COUNTING /\ state = COUNTING
  /\ roundPresses = 2 /\ requestedCount = 2
  /\ nowMs >= stateEnterMs + COUNT_WINDOW_MS
  /\ countWindowEnds = nowMs + COUNT_WINDOW_MS

\* C20: every IDLE -> COUNTING transition sets requestedCount to 1, whatever the
\* rounds before left in it, so in every round requestedCount (in COUNTING and
\* ANIMATING) and selectedCount (from the end of the animation on) are functions of
\* roundPresses, the short presses returned since that transition, alone:
\* min(roundPresses, PEOPLE_NB).
C20_RoundsIndependent ==
  /\ [][(state = IDLE /\ state' = COUNTING) =>
          (btn' = 1 /\ requestedCount' = 1 /\ roundPresses' = 1)]_vars
  /\ [](state \in {COUNTING, ANIMATING} =>
          requestedCount = Min(roundPresses, PEOPLE_NB))
  /\ []((pc = "pick" \/ state = SHOW) =>
          selectedCount = Min(roundPresses, PEOPLE_NB))

\* SHOW of one person, after one press, in a round whose IDLE -> COUNTING
\* transition found requestedCount = 2 left by the round before
C20_Witness ==
  /\ state = SHOW /\ staleCount = 2
  /\ roundPresses = 1 /\ selectedCount = 1 /\ count = 1
====
